---- MODULE Spec2Model ----
(***************************************************************************)
(* Model of cavelink.py: the Sensor class (construction from one fetched   *)
(* page, getData) and the module's helper functions.                       *)
(*                                                                         *)
(* Text is modelled as TLA+ strings, read character by character with      *)
(* SubSeq.  A float is modelled exactly as a decimal record                *)
(* [neg, int, frac] (frac without trailing zeros), which is what Python's  *)
(* float/repr round trip preserves for the short decimals of a page.       *)
(* The host's local time zone is a fixed offset tz (seconds east of UTC).  *)
(***************************************************************************)
EXTENDS Integers, Sequences, FiniteSets, TLC

VARIABLES
    tz,         \* host: local time offset, seconds east of UTC
    html,       \* remote: the text the service returns (webpage.text)
    URL,        \* argument URL of Sensor(...)
    rows,       \* argument rows of Sensor(...)
    pc,         \* "new" before Sensor(...) has run, "ready" after
    fetchURL,   \* the URL handed to requests.get
    rawData,    \* self.rawData
    data,       \* self.data
    station,    \* self.station
    group,      \* self.group
    number,     \* self.number
    unit,       \* self.unit
    result,     \* the call of getData whose return value the caller holds
    built       \* history: the Sensor's attributes as __init__ left them

vars == <<tz, html, URL, rows, pc, fetchURL, rawData, data,
          station, group, number, unit, result, built>>

self == <<rawData, data, station, group, number, unit>>

(***************************************************************************)
(* Bounds of the model.                                                    *)
(***************************************************************************)
MaxLines == 3       \* lines of a page
MaxParams == 2      \* query parameters of a URL

(***************************************************************************)
(* Characters and strings.                                                 *)
(***************************************************************************)
Min(a, b) == IF a < b THEN a ELSE b

Char(s, i) == SubSeq(s, i, i)

\* Python s[a:b], 0 <= a <= b
Slice(s, a, b) == IF a >= Len(s) THEN "" ELSE SubSeq(s, a + 1, Min(b, Len(s)))

\* Python s[a:]
SliceFrom(s, a) == Slice(s, a, Len(s))

Digits == "0123456789"
UpperLetters == "ABCDEFGHIJKLMNOPQRSTUVWXYZ"
LowerLetters == "abcdefghijklmnopqrstuvwxyz"

\* 1-based index of character c in alphabet, 0 when it is not there
RECURSIVE IndexFrom(_, _, _)
IndexFrom(alphabet, c, i) ==
    IF i > Len(alphabet) THEN 0
    ELSE IF Char(alphabet, i) = c THEN i
    ELSE IndexFrom(alphabet, c, i + 1)

IndexIn(alphabet, c) == IndexFrom(alphabet, c, 1)

DigitSet == {Char(Digits, i) : i \in 1..Len(Digits)}

DigitOf == [c \in DigitSet |-> IndexIn(Digits, c) - 1]

IsDigit(c) == c \in DigitSet

DigitVal(c) == DigitOf[c]

IsSpace(c) == c = " "

\* the letters one alphabet maps to the other, position by position
Translation(from, to) ==
    LET letters == {Char(from, i) : i \in 1..Len(from)}
    IN  [from |-> letters,
         to |-> [c \in letters |-> Char(to, IndexIn(from, c))]]

ToLower == Translation(UpperLetters, LowerLetters)
ToUpper == Translation(LowerLetters, UpperLetters)

\* s with every character the table holds replaced, from 1-based index i on
RECURSIVE MapChars(_, _, _)
MapChars(s, table, i) ==
    IF i > Len(s) THEN ""
    ELSE LET c == Char(s, i)
         IN  (IF c \in table.from THEN table.to[c] ELSE c)
             \o MapChars(s, table, i + 1)

\* a lower() that was left out
LowerIdentity(s) == s

\* str.lower()
Lower(s) == MapChars(s, ToLower, 1)

\* str.upper()
Upper(s) == MapChars(s, ToUpper, 1)

StartsWith(s, p) == Len(s) >= Len(p) /\ SubSeq(s, 1, Len(p)) = p

\* str.find: first 0-based index >= from at which sub occurs in s, or -1
RECURSIVE Find(_, _, _)
Find(s, sub, from) ==
    IF from + Len(sub) > Len(s) THEN -1
    ELSE IF SubSeq(s, from + 1, from + Len(sub)) = sub THEN from
    ELSE Find(s, sub, from + 1)

\* str.split(sep)
RECURSIVE Split(_, _)
Split(s, sep) ==
    LET i == Find(s, sep, 0)
    IN  IF i < 0 THEN <<s>>
        ELSE <<Slice(s, 0, i)>> \o Split(SliceFrom(s, i + Len(sep)), sep)

\* str.replace(old, "") for a one-character old
RECURSIVE Remove(_, _)
Remove(s, old) ==
    IF s = "" THEN ""
    ELSE (IF Char(s, 1) = old THEN "" ELSE Char(s, 1))
         \o Remove(SliceFrom(s, 1), old)

\* whether c is in the regex class: "d" is \d, "S" is \S
InClass(class, c) == IF class = "d" THEN IsDigit(c) ELSE ~IsSpace(c)

\* length of the run of class characters that starts at 0-based index i
RECURSIVE RunLen(_, _, _)
RunLen(s, i, class) ==
    IF i < Len(s) /\ InClass(class, Char(s, i + 1))
    THEN 1 + RunLen(s, i + 1, class) ELSE 0

\* str(n) for an integer n >= 0
RECURSIVE IntToStr(_)
IntToStr(n) ==
    IF n < 10 THEN Char(Digits, n + 1)
    ELSE IntToStr(n \div 10) \o Char(Digits, (n % 10) + 1)

\* the number the first n digits of s write
RECURSIVE DigitsValue(_, _)
DigitsValue(s, n) ==
    IF n = 0 THEN 0 ELSE 10 * DigitsValue(s, n - 1) + DigitVal(Char(s, n))

\* int(s) for a string of digits
StrToInt(s) == DigitsValue(s, Len(s))

\* "%02d" and "%04d"
Pad(n, width) ==
    LET d == IntToStr(n)
    IN  SubSeq("0000", 1, width - Len(d)) \o d

\* code point order of the characters text keys are made of
CodeOrder == " !\"#$%&'()*+,-./0123456789:"
OrdOf == [c \in {Char(CodeOrder, i) : i \in 1..Len(CodeOrder)} |->
            IndexIn(CodeOrder, c)]

Ord(c) == OrdOf[c]

\* Python's < on str
RECURSIVE StrLessFrom(_, _, _)
StrLessFrom(a, b, i) ==
    IF i > Len(b) THEN FALSE
    ELSE IF i > Len(a) THEN TRUE
    ELSE IF Char(a, i) = Char(b, i) THEN StrLessFrom(a, b, i + 1)
    ELSE Ord(Char(a, i)) < Ord(Char(b, i))

StrLess(a, b) == StrLessFrom(a, b, 1)

(***************************************************************************)
(* Regular expressions of the form (?<=marker)C{1,} with C = \d or \S.     *)
(***************************************************************************)
NoMatch == [found |-> FALSE, at |-> 0, text |-> ""]

\* 0-based indices at which a match starts: marker just before, class char at
MatchStarts(marker, class, s) ==
    {i \in Len(marker)..(Len(s) - 1) :
        /\ SubSeq(s, i - Len(marker) + 1, i) = marker
        /\ InClass(class, Char(s, i + 1))}

MatchAt(s, i, class) ==
    [found |-> TRUE, at |-> i, text |-> Slice(s, i, i + RunLen(s, i, class))]

\* a search that keeps the rightmost match of the line
ReSearchLast(marker, class, s) ==
    LET starts == MatchStarts(marker, class, s)
    IN  IF starts = {} THEN NoMatch
        ELSE MatchAt(s, CHOOSE i \in starts : \A j \in starts : j <= i, class)

\* re.search: the leftmost match of the line
ReSearch(marker, class, s) ==
    LET starts == MatchStarts(marker, class, s)
    IN  IF starts = {} THEN NoMatch
        ELSE MatchAt(s, CHOOSE i \in starts : \A j \in starts : i <= j, class)

\* re.sub: every non-overlapping match, left to right, replaced by repl
RECURSIVE ReSub(_, _, _, _)
ReSub(marker, class, repl, s) ==
    LET m == ReSearch(marker, class, s)
    IN  IF ~m.found THEN s
        ELSE Slice(s, 0, m.at) \o repl
             \o ReSub(marker, class, repl, SliceFrom(s, m.at + Len(m.text)))

(***************************************************************************)
(* Dates and times.                                                        *)
(***************************************************************************)
IsLeap(y) == (y % 4 = 0 /\ y % 100 # 0) \/ y % 400 = 0

DaysInMonth(y, m) ==
    IF m = 2 THEN (IF IsLeap(y) THEN 29 ELSE 28)
    ELSE IF m \in {4, 6, 9, 11} THEN 30 ELSE 31

\* days from 1970-01-01 to the civil date y-m-d
DaysFromCivil(y, m, d) ==
    LET yy  == IF m <= 2 THEN y - 1 ELSE y
        era == yy \div 400
        yoe == yy - era * 400
        mp  == IF m > 2 THEN m - 3 ELSE m + 9
        doy == (153 * mp + 2) \div 5 + d - 1
        doe == yoe * 365 + yoe \div 4 - yoe \div 100 + doy
    IN  era * 146097 + doe - 719468

\* the civil date that is z days after 1970-01-01
CivilFromDays(z) ==
    LET zz  == z + 719468
        era == zz \div 146097
        doe == zz - era * 146097
        yoe == (doe - doe \div 1460 + doe \div 36524 - doe \div 146096) \div 365
        doy == doe - (365 * yoe + yoe \div 4 - yoe \div 100)
        mp  == (5 * doy + 2) \div 153
        d   == doy - (153 * mp + 2) \div 5 + 1
        m   == IF mp < 10 THEN mp + 3 ELSE mp - 9
        y   == yoe + era * 400 + (IF m <= 2 THEN 1 ELSE 0)
    IN  [year |-> y, month |-> m, day |-> d]

ParseError == [ok |-> FALSE, text |-> ""]

\* dateutil's parse(token, ignoretz=True, dayfirst=True) followed by str(),
\* on the tokens a page holds: a day-first "DD.MM.YYYY HH:MM" stamp gives
\* "YYYY-MM-DD HH:MM:00"; a token holding words raises.
ParseDateTime(token) ==
    IF /\ Len(token) = 16
       /\ Char(token, 3) = "." /\ Char(token, 6) = "."
       /\ Char(token, 11) = " " /\ Char(token, 14) = ":"
       /\ \A i \in {1, 2, 4, 5, 7, 8, 9, 10, 12, 13, 15, 16} :
             IsDigit(Char(token, i))
    THEN LET dd == SubSeq(token, 1, 2)
             mm == SubSeq(token, 4, 5)
             yy == SubSeq(token, 7, 10)
             hh == SubSeq(token, 12, 13)
             mi == SubSeq(token, 15, 16)
             year == StrToInt(yy)
             month == StrToInt(mm)
         IN  IF /\ year >= 1 /\ month \in 1..12
                /\ StrToInt(dd) \in 1..DaysInMonth(year, month)
                /\ StrToInt(hh) <= 23 /\ StrToInt(mi) <= 59
             THEN [ok |-> TRUE,
                   text |-> yy \o "-" \o mm \o "-" \o dd \o " "
                               \o hh \o ":" \o mi \o ":00"]
             ELSE ParseError
    ELSE ParseError

\* toEpoch on a host whose local time is UTC + offset seconds: strptime
\* with "%Y-%m-%d %H:%M:%S", then mktime
ToEpochAt(value, offset) ==
    LET y  == StrToInt(SubSeq(value, 1, 4))
        m  == StrToInt(SubSeq(value, 6, 7))
        d  == StrToInt(SubSeq(value, 9, 10))
        hh == StrToInt(SubSeq(value, 12, 13))
        mi == StrToInt(SubSeq(value, 15, 16))
        ss == StrToInt(SubSeq(value, 18, 19))
    IN  DaysFromCivil(y, m, d) * 86400 + hh * 3600 + mi * 60 + ss - offset

\* findDate on that host
\* the text findDate hands to toEpoch: what parse gave, or the default
DateTimeString(parsed) ==
    IF parsed.ok THEN parsed.text ELSE "1970-01-01 00:00:00"

FindDateAt(inputValue, offset) ==
    ToEpochAt(DateTimeString(ParseDateTime(inputValue)), offset)

\* toHumanTime on that host
\* strftime("%d.%m.%Y %H:%M") of a local date and second of the day
StrfTime(civil, sod) ==
    Pad(civil.day, 2) \o "." \o Pad(civil.month, 2) \o "."
    \o Pad(civil.year, 4) \o " " \o Pad(sod \div 3600, 2)
    \o ":" \o Pad((sod % 3600) \div 60, 2)

ToHumanTimeAt(epoch, offset) ==
    StrfTime(CivilFromDays((epoch + offset) \div 86400),
             (epoch + offset) % 86400)

IsNotNull(value) == Len(value) > 0

(***************************************************************************)
(* Floating point values.                                                  *)
(***************************************************************************)
ValueError == [ok |-> FALSE, neg |-> FALSE, int |-> 0, frac |-> ""]

RECURSIVE Strip(_)
Strip(s) ==
    IF s = "" THEN ""
    ELSE IF IsSpace(Char(s, 1)) THEN Strip(SliceFrom(s, 1))
    ELSE IF IsSpace(Char(s, Len(s))) THEN Strip(Slice(s, 0, Len(s) - 1))
    ELSE s

RECURSIVE DropTrailingZeros(_)
DropTrailingZeros(s) ==
    IF s # "" /\ Char(s, Len(s)) = "0"
    THEN DropTrailingZeros(Slice(s, 0, Len(s) - 1)) ELSE s

\* float(token): [sign] digits [. [digits]] or [sign] . digits, blanks
\* around it ignored; anything else is a ValueError
Decimal(neg, ip, fp) ==
    IF /\ ip \o fp # ""
       /\ \A i \in 1..Len(ip) : IsDigit(Char(ip, i))
       /\ \A i \in 1..Len(fp) : IsDigit(Char(fp, i))
    THEN [ok |-> TRUE, neg |-> neg, int |-> StrToInt(ip),
          frac |-> DropTrailingZeros(fp)]
    ELSE ValueError

Unsigned(neg, body, dot) ==
    Decimal(neg, IF dot < 0 THEN body ELSE Slice(body, 0, dot),
                 IF dot < 0 THEN "" ELSE SliceFrom(body, dot + 1))

Signed(neg, body) == Unsigned(neg, body, Find(body, ".", 0))

Stripped(t) ==
    Signed(StartsWith(t, "-"),
           IF StartsWith(t, "-") \/ StartsWith(t, "+")
           THEN SliceFrom(t, 1) ELSE t)

Float(token) == Stripped(Strip(token))

\* repr(x) of a float, which json.dumps writes
FloatRepr(x) ==
    (IF x.neg THEN "-" ELSE "") \o IntToStr(x.int) \o "."
    \o (IF x.frac = "" THEN "0" ELSE x.frac)

(***************************************************************************)
(* Sensor.getData.                                                         *)
(***************************************************************************)
\* a dict is the sequence of its <<key, value>> items in insertion order
HasKey(d, k) == \E i \in 1..Len(d) : d[i][1] = k

\* an assignment that leaves a key already present alone
DictKeepFirst(d, k, v) == IF HasKey(d, k) THEN d ELSE Append(d, <<k, v>>)

\* d[k] = v
DictSet(d, k, v) ==
    IF HasKey(d, k)
    THEN [i \in 1..Len(d) |-> IF d[i][1] = k THEN <<k, v>> ELSE d[i]]
    ELSE Append(d, <<k, v>>)

\* a loop that passes over a line whose value is no number
SkipLine(DictValues) == [raised |-> FALSE, DictValues |-> DictValues]

\* float() raises ValueError: the exception leaves the loop and getData
Raise(DictValues) == [raised |-> TRUE, DictValues |-> <<>>]

\* the body of the loop over self.data for one non-empty dated line
\* DictValues[timestamp] = float(...): the value, then the assignment
Store(DictValues, timestamp, value) ==
    IF value.ok
    THEN [raised |-> FALSE,
          DictValues |-> DictSet(DictValues, timestamp, value)]
    ELSE Raise(DictValues)

\* the two branches on datefmt, for one non-empty dated line
Record(DictValues, line, epochDatetime, human, offset) ==
    Store(DictValues,
          IF human THEN ToHumanTimeAt(epochDatetime, offset)
          ELSE epochDatetime,
          Float(SliceFrom(line, 17)))

\* if epochDatetime > 0
IfDated(DictValues, line, epochDatetime, human, offset) ==
    IF epochDatetime > 0
    THEN Record(DictValues, line, epochDatetime, human, offset)
    ELSE [raised |-> FALSE, DictValues |-> DictValues]

\* the body of the loop over self.data for one line
Body(DictValues, line, human, offset) ==
    IF IsNotNull(line)
    THEN IfDated(DictValues, line, FindDateAt(Slice(line, 0, 16), offset),
                 human, offset)
    ELSE [raised |-> FALSE, DictValues |-> DictValues]

\* the loop over self.data, from line i on: an exception ends it
RECURSIVE Loop(_, _, _, _, _)
Loop(lines, i, step, human, offset) ==
    IF i > Len(lines) \/ step.raised THEN step
    ELSE Loop(lines, i + 1,
              Body(step.DictValues, lines[i], human, offset),
              human, offset)

\* an order that reads text keys back as the times they show
KeyLessByTime(a, b, human) ==
    IF human THEN FindDateAt(a, 0) < FindDateAt(b, 0) ELSE a < b

\* Python's < on the keys of one dict: all int, or all str
KeyLess(a, b, human) == IF human THEN StrLess(a, b) ELSE a < b

\* the items left in insertion order
Unsorted(items, human) == items

\* sorted(items): the keys are distinct, so the values never decide
RECURSIVE Sorted(_, _)
Sorted(items, human) ==
    IF items = <<>> THEN <<>>
    ELSE LET m == CHOOSE i \in 1..Len(items) :
                    \A j \in 1..Len(items) :
                        i = j \/ KeyLess(items[i][1], items[j][1], human)
             rest == [j \in 1..(Len(items) - 1) |->
                        IF j < m THEN items[j] ELSE items[j + 1]]
         IN  <<items[m]>> \o Sorted(rest, human)

\* the key of a JSON object member: an int key is written as its digits
JsonKey(k, human) == "\"" \o (IF human THEN k ELSE IntToStr(k)) \o "\""

RECURSIVE JsonMembers(_, _)
JsonMembers(items, human) ==
    IF items = <<>> THEN ""
    ELSE JsonKey(items[1][1], human) \o ": " \o FloatRepr(items[1][2])
         \o (IF Len(items) > 1 THEN ", " ELSE "")
         \o JsonMembers(Tail(items), human)

\* an encoder that writes each value as an integer
RECURSIVE JsonMembersInt(_, _)
JsonMembersInt(items, human) ==
    IF items = <<>> THEN ""
    ELSE JsonKey(items[1][1], human) \o ": " \o IntToStr(items[1][2].int)
         \o (IF Len(items) > 1 THEN ", " ELSE "")
         \o JsonMembersInt(Tail(items), human)

JsonDumpsInt(items, human) == "{" \o JsonMembersInt(items, human) \o "}"

\* json.dumps(output)
JsonDumps(items, human) == "{" \o JsonMembers(items, human) \o "}"

\* a returned value: kind "odict" is an OrderedDict with int or str keys,
\* kind "str" is JSON text, kind "none" is no value (an exception)
NoOutput == [kind |-> "none", keys |-> "none", items |-> <<>>, text |-> ""]

\* return output: the JSON text, or the OrderedDict itself
Return(output, human, json) ==
    IF json
    THEN [raised |-> FALSE,
          output |-> [kind |-> "str",
                      keys |-> IF human THEN "str" ELSE "int",
                      items |-> <<>>, text |-> JsonDumps(output, human)]]
    ELSE [raised |-> FALSE,
          output |-> [kind |-> "odict",
                      keys |-> IF human THEN "str" ELSE "int",
                      items |-> output, text |-> ""]]

\* after the loop: the exception, or the sorted dict as asked
Finish(loop, human, json) ==
    IF loop.raised THEN [raised |-> TRUE, output |-> NoOutput]
    ELSE Return(Sorted(loop.DictValues, human), human, json)

\* getData once its selectors are lowered and compared
Select(lines, human, json, offset) ==
    Finish(Loop(lines, 1, [raised |-> FALSE, DictValues |-> <<>>],
                human, offset),
           human, json)

\* what getData(datefmt, outputstyle) does on the lines given
GetDataOn(lines, dfmt, ostyle, offset) ==
    Select(lines, Lower(dfmt) = "human", Lower(ostyle) = "json", offset)

(***************************************************************************)
(* Sensor.__init__.                                                        *)
(***************************************************************************)
Unset == "<unset>"

\* if match: the attribute takes match.group(0)
Assign(match, upper, field) ==
    IF match.found
    THEN (IF upper THEN Upper(match.text) ELSE match.text)
    ELSE field

\* the loop over self.data for one marker: a line that matches assigns
RECURSIVE Scan(_, _, _, _, _)
Scan(lines, marker, class, upper, field) ==
    IF lines = <<>> THEN field
    ELSE Scan(Tail(lines), marker, class, upper,
              Assign(ReSearch(marker, class, Head(lines)), upper, field))

\* the URL with the number of rows replaced
RowsURL(url, n) == ReSub("l=", "d", IntToStr(n), url)

NoCall == [called |-> FALSE, datefmt |-> "", outputstyle |-> "",
           raised |-> FALSE, output |-> NoOutput]

\* Sensor(URL, rows): the fetch fails and the process exits, or the page
\* is fetched, split and scanned
Construct ==
    /\ pc = "new"
    /\ \E fetched \in BOOLEAN :
        IF fetched
        THEN LET lines == Split(html, "<br>")
             IN  /\ pc' = "ready"
                 /\ fetchURL' = RowsURL(URL, rows)
                 /\ rawData' = Remove(html, ",")
                 /\ data' = lines
                 /\ station' = Scan(lines, "Stn=", "d", FALSE, Unset)
                 /\ group' = Scan(lines, "Grp=", "d", FALSE, Unset)
                 /\ number' = Scan(lines, "Nr=", "d", FALSE, Unset)
                 /\ unit' = Scan(lines, "Einheit : ", "S", TRUE, Unset)
                 /\ built' = self'
        ELSE /\ pc' = "exited"
             /\ fetchURL' = RowsURL(URL, rows)
             /\ UNCHANGED <<self, built>>
    /\ UNCHANGED <<tz, html, URL, rows, result>>

\* what the caller holds after a call
Call(datefmt, outputstyle, r) ==
    [called |-> TRUE, datefmt |-> datefmt, outputstyle |-> outputstyle,
     raised |-> r.raised, output |-> r.output]

\* the selectors tried
DateFmts == {"epoch", "human", "HuMan"}
OutputStyles == {"raw", "json", "JSON", "oDict"}

\* a getData that consumes the lines it reads
GetDataConsuming(datefmt, outputstyle) ==
    /\ pc = "ready"
    /\ ~result.called
    /\ result' = Call(datefmt, outputstyle,
                       GetDataOn(data, datefmt, outputstyle, tz))
    /\ data' = <<>>
    /\ UNCHANGED <<tz, html, URL, rows, pc, fetchURL, rawData,
                   station, group, number, unit, built>>

\* sensor.getData(datefmt, outputstyle), called by a caller that holds no
\* earlier return value
GetData(datefmt, outputstyle) ==
    /\ pc = "ready"
    /\ ~result.called
    /\ result' = Call(datefmt, outputstyle,
                       GetDataOn(data, datefmt, outputstyle, tz))
    /\ UNCHANGED <<tz, html, URL, rows, pc, fetchURL, self, built>>

\* the caller is done with what getData returned (or raised)
Release ==
    /\ pc = "ready"
    /\ result.called
    /\ result' = NoCall
    /\ UNCHANGED <<tz, html, URL, rows, pc, fetchURL, self, built>>

Next ==
    \/ Construct
    \/ \E datefmt \in DateFmts, outputstyle \in OutputStyles :
          GetData(datefmt, outputstyle)
    \/ Release

(***************************************************************************)
(* The pages, hosts and arguments explored.                                *)
(***************************************************************************)
default_CL == "http://www.cavelink.com/cl/da.php?s=115&g=1&w=103&l=10"
default_rows == 10

\* hosts west of, at and east of UTC
Offsets == {-18000, 0, 3600}

RECURSIVE SeqsUpTo(_, _)
SeqsUpTo(S, n) ==
    IF n = 0 THEN {<<>>}
    ELSE LET shorter == SeqsUpTo(S, n - 1)
         IN  shorter \cup {Append(q, x) : q \in shorter, x \in S}

\* a page: every line is followed by the separator
RECURSIVE Page(_)
Page(lines) ==
    IF lines = <<>> THEN "" ELSE Head(lines) \o "<br>" \o Page(Tail(lines))

DataLines ==
    { "31.01.2016 10:00 1.5",
      "01.02.2016 09:00 2.5",
      "31.01.2016 10:00 3",
      "15.06.2015 12:00 -4.50",
      "01.02.2016 09:00 x" }

MetaLines ==
    { "Stn=115 Grp=1 Nr=103",
      "Stn=7 Stn=8 Grp=x",
      "Nr=4 Nr=5 Einheit : m",
      "Einheit : c Einheit : mm",
      "31.01.2016 10:00 1.5" }

QueryParams == {"s=115", "l=10", "al=5", "w=l"}

RECURSIVE Query(_)
Query(params) ==
    IF Len(params) = 1 THEN Head(params)
    ELSE Head(params) \o "&" \o Query(Tail(params))

RowCounts == {1, 10, 250}

InitSensor ==
    /\ pc = "new"
    /\ fetchURL = ""
    /\ rawData = ""
    /\ data = <<>>
    /\ station = Unset
    /\ group = Unset
    /\ number = Unset
    /\ unit = Unset
    /\ result = NoCall
    /\ built = self

\* pages of readings, on every host
Init ==
    /\ tz \in Offsets
    /\ html \in {Page(p) : p \in SeqsUpTo(DataLines, MaxLines)}
    /\ URL = default_CL
    /\ rows = default_rows
    /\ InitSensor

\* pages of metadata and a reading, on every host
InitMeta ==
    /\ tz \in Offsets
    /\ html \in {Page(p) : p \in SeqsUpTo(MetaLines, MaxLines)}
    /\ URL = default_CL
    /\ rows = default_rows
    /\ InitSensor

\* URLs and row counts
InitURL ==
    /\ tz = 0
    /\ html = Page(<<"31.01.2016 10:00 1.5">>)
    /\ URL \in {"da.php?" \o Query(q) :
                    q \in SeqsUpTo(QueryParams, MaxParams) \ {<<>>}}
    /\ rows \in RowCounts
    /\ InitSensor

Spec == Init /\ [][Next]_vars

SpecMeta == InitMeta /\ [][Next]_vars

SpecURL == InitURL /\ [][Next]_vars

(***************************************************************************)
(* Properties.                                                             *)
(***************************************************************************)
Returned == pc = "ready" /\ result.called /\ ~result.raised

ReturnedDict == Returned /\ result.output.kind = "odict"

Items == result.output.items

Head16(line) == Slice(line, 0, 16)

\* the line's first 16 characters parse as a date and time
Parsed(line) == IsNotNull(line) /\ ParseDateTime(Head16(line)).ok

\* the line reaches float(): the code found an epoch > 0 for it
Dated(line) == IsNotNull(line) /\ FindDateAt(Head16(line), tz) > 0

BadValue(line) == ~Float(SliceFrom(line, 17)).ok

\* the key the line is recorded under
KeyOf(line, keys) ==
    IF keys = "str" THEN ToHumanTimeAt(FindDateAt(Head16(line), tz), tz)
    ELSE FindDateAt(Head16(line), tz)

HumanSpellings == {"human", "HuMan"}
JsonSpellings == {"json", "JSON"}

\* C1: with datefmt 'epoch' and outputstyle 'raw' the mapping getData
\* returns has strictly ascending timestamps as keys, in iteration order,
\* whatever the order of the lines in the page.
C1_EpochRawAscending ==
    (Returned /\ result.datefmt = "epoch" /\ result.outputstyle = "raw") =>
        /\ result.output.kind = "odict"
        /\ result.output.keys = "int"
        /\ \A i, j \in 1..Len(Items) : i < j => Items[i][1] < Items[j][1]
        /\ \A i \in 1..Len(data) :
              Dated(data[i]) =>
                  \E n \in 1..Len(Items) : Items[n][1] = KeyOf(data[i], "int")

\* three readings in the page order middle, oldest, newest came out sorted
C1_Witness ==
    /\ Returned /\ result.datefmt = "epoch" /\ result.outputstyle = "raw"
    /\ Len(Items) = 3
    /\ Len(data) >= 3
    /\ Dated(data[1]) /\ Dated(data[2]) /\ Dated(data[3])
    /\ KeyOf(data[2], "int") < KeyOf(data[1], "int")
    /\ KeyOf(data[1], "int") < KeyOf(data[3], "int")

\* C2: when several lines carry the same timestamp, the returned mapping
\* holds exactly one entry for it, with the value of the last such line.
C2_LastDuplicateWins ==
    ReturnedDict =>
        LET dated == {i \in 1..Len(data) : Dated(data[i])}
            key == [i \in dated |-> KeyOf(data[i], result.output.keys)]
        IN  \A i \in dated :
                LET same == {j \in dated : key[j] = key[i]}
                    last == CHOOSE j \in same : \A m \in same : m <= j
                    hits == {n \in 1..Len(Items) : Items[n][1] = key[i]}
                IN  /\ Cardinality(hits) = 1
                    /\ \A n \in hits :
                          Items[n][2] = Float(SliceFrom(data[last], 17))

\* two lines with one timestamp and different values, and a mapping returned
C2_Witness ==
    /\ ReturnedDict
    /\ \E i, j \in 1..Len(data) :
          /\ i < j /\ Dated(data[i]) /\ Dated(data[j])
          /\ KeyOf(data[i], "int") = KeyOf(data[j], "int")
          /\ Float(SliceFrom(data[i], 17)) # Float(SliceFrom(data[j], 17))

\* C3: a line whose first 16 characters are no date gets epoch 0 from
\* findDate and is dropped by getData: no entry, no error, on every host.
C3_UnparsedLineDropped ==
    (pc = "ready" /\ result.called) =>
        \A i \in 1..Len(data) :
            (IsNotNull(data[i]) /\ ~Parsed(data[i])) =>
                /\ FindDateAt(Head16(data[i]), tz) = 0
                /\ result.raised =>
                      \E j \in 1..Len(data) :
                          Parsed(data[j]) /\ BadValue(data[j])
                /\ ReturnedDict =>
                      \A n \in 1..Len(Items) :
                          \E j \in 1..Len(data) :
                              /\ Parsed(data[j])
                              /\ Items[n][1] = KeyOf(data[j], result.output.keys)

\* C4: one line with a date after the epoch and a value that is no number
\* makes getData raise and return nothing, whatever else the page holds.
C4_BadValueFails ==
    (pc = "ready" /\ result.called
        /\ \E i \in 1..Len(data) : BadValue(data[i]) /\ Dated(data[i])) =>
        /\ result.raised
        /\ result.output = NoOutput

\* a bad value between two good readings, and the call raised
C4_Witness ==
    /\ pc = "ready" /\ result.called /\ result.raised
    /\ \E i, j, k \in 1..Len(data) :
          /\ i < j /\ j < k
          /\ Dated(data[i]) /\ ~BadValue(data[i])
          /\ Dated(data[j]) /\ BadValue(data[j])
          /\ Dated(data[k]) /\ ~BadValue(data[k])

\* the URL in which only the number of the query parameter l is replaced
RowParamOnly(url, n) ==
    ReSub("&l=", "d", IntToStr(n), ReSub("?l=", "d", IntToStr(n), url))

HasRowParam(url) ==
    ReSearch("?l=", "d", url).found \/ ReSearch("&l=", "d", url).found

\* C5: in a URL that holds the row-count parameter, the URL fetched has
\* that parameter equal to rows and every other character unchanged.
C5_OnlyRowParamReplaced ==
    (pc = "ready" /\ HasRowParam(URL)) => fetchURL = RowParamOnly(URL, rows)

\* json.loads on the text of an object of numbers: its members in order
JsonLoads(text) ==
    LET body == Slice(text, 1, Len(text) - 1)
        members == IF body = "" THEN <<>> ELSE Split(body, ", ")
    IN  [n \in 1..Len(members) |->
            LET colon == Find(members[n], "\": ", 0)
            IN  <<Slice(members[n], 1, colon),
                  Float(SliceFrom(members[n], colon + 3))>>]

\* the raw mapping of the same page, date format and host
RawItems == GetDataOn(data, result.datefmt, "raw", tz).output.items

KeyText(k, keys) == IF keys = "str" THEN k ELSE IntToStr(k)

C7_HumanLexicographic ==
    (ReturnedDict /\ result.datefmt = "human") =>
        /\ result.output.keys = "str"
        /\ \A i, j \in 1..Len(Items) :
              i < j => StrLess(Items[i][1], Items[j][1])
        /\ \A i, j \in 1..Len(Items) :
              (Slice(Items[i][1], 0, 10) = "01.02.2016"
                  /\ Slice(Items[j][1], 0, 10) = "31.01.2016") => i < j

\* readings of 31.01.2016 and 01.02.2016 returned with the later one first
C7_Witness ==
    /\ ReturnedDict /\ result.datefmt = "human"
    /\ \E i, j \in 1..Len(Items) :
          /\ i < j
          /\ Slice(Items[i][1], 0, 10) = "01.02.2016"
          /\ Slice(Items[j][1], 0, 10) = "31.01.2016"
          /\ FindDateAt(Items[j][1], tz) < FindDateAt(Items[i][1], tz)

\* C8: the selectors are read ignoring case and never raise: JSON text
\* exactly for 'json', text keys exactly for 'human', the ordered mapping
\* with epoch keys for any other string.
C8_Selectors ==
    (pc = "ready" /\ result.called) =>
        /\ result.raised <=>
              \E i \in 1..Len(data) : BadValue(data[i]) /\ Dated(data[i])
        /\ ~result.raised =>
              /\ result.output.kind =
                    (IF result.outputstyle \in JsonSpellings
                     THEN "str" ELSE "odict")
              /\ result.output.keys =
                    (IF result.datefmt \in HumanSpellings
                     THEN "str" ELSE "int")

\* a call with a mixed-case 'human' and an unknown output style returned
\* a mapping with text keys
C8_Witness ==
    /\ ReturnedDict
    /\ result.datefmt = "HuMan" /\ result.outputstyle = "oDict"
    /\ Len(Items) >= 1
    /\ result.output.keys = "str"

\* the value the marker has where it first occurs on the line
FirstOnLine(marker, class, line) ==
    LET starts == MatchStarts(marker, class, line)
        at == CHOOSE i \in starts : \A j \in starts : i <= j
    IN  Slice(line, at, at + RunLen(line, at, class))

\* the value the marker has where it last occurs on the line
LastOnLine(marker, class, line) ==
    LET starts == MatchStarts(marker, class, line)
        at == CHOOSE i \in starts : \A j \in starts : j <= i
    IN  Slice(line, at, at + RunLen(line, at, class))

LinesWith(marker, class) ==
    {i \in 1..Len(data) : MatchStarts(marker, class, data[i]) # {}}

LastLineWith(marker, class) ==
    CHOOSE i \in LinesWith(marker, class) :
        \A j \in LinesWith(marker, class) : j <= i

\* the field is the marker's last occurrence in the page
HoldsLastInPage(field, marker, class, upper) ==
    LinesWith(marker, class) # {} =>
        LET v == LastOnLine(marker, class, data[LastLineWith(marker, class)])
        IN  field = IF upper THEN Upper(v) ELSE v

\* the field is the marker's first occurrence on the last line that has it
HoldsFirstOnLastLine(field, marker, class, upper) ==
    IF LinesWith(marker, class) = {} THEN field = Unset
    ELSE LET v == FirstOnLine(marker, class,
                              data[LastLineWith(marker, class)])
         IN  field = IF upper THEN Upper(v) ELSE v

\* C9 as stated: after construction each metadata field holds the value of
\* the last occurrence of its marker in the page, also among several on
\* one line.
C9_LastOccurrenceInPage ==
    (pc = "ready" /\ ~result.called) =>
        /\ HoldsLastInPage(station, "Stn=", "d", FALSE)
        /\ HoldsLastInPage(group, "Grp=", "d", FALSE)
        /\ HoldsLastInPage(number, "Nr=", "d", FALSE)
        /\ HoldsLastInPage(unit, "Einheit : ", "S", TRUE)

\* C9 amended: after construction each metadata field holds the value of
\* the first occurrence of its marker on the last line of the page that
\* has the marker (the unit in upper case), whatever the other markers do;
\* it is unset when no line has the marker.
C9_FirstOnLastLine ==
    (pc = "ready" /\ ~result.called) =>
        /\ HoldsFirstOnLastLine(station, "Stn=", "d", FALSE)
        /\ HoldsFirstOnLastLine(group, "Grp=", "d", FALSE)
        /\ HoldsFirstOnLastLine(number, "Nr=", "d", FALSE)
        /\ HoldsFirstOnLastLine(unit, "Einheit : ", "S", TRUE)

\* a marker occurs on two lines, and twice on the last of them
C9_Witness ==
    /\ pc = "ready"
    /\ Cardinality(LinesWith("Stn=", "d")) >= 2
    /\ Cardinality(MatchStarts("Stn=", "d",
                               data[LastLineWith("Stn=", "d")])) >= 2
    /\ station = "7"

\* C10: getData leaves the Sensor as __init__ made it, and what a call
\* returns is decided by the lines __init__ stored, the host and the
\* selectors alone, so that two calls with the same selectors agree.
C10_GetDataPure ==
    pc = "ready" =>
        /\ self = built
        /\ result.called =>
              LET r == GetDataOn(built[2], result.datefmt,
                                 result.outputstyle, tz)
              IN  result.raised = r.raised /\ result.output = r.output

\* a call returned readings from a Sensor that holds all four fields
C10_Witness ==
    /\ ReturnedDict
    /\ Len(Items) >= 1
    /\ station # Unset /\ group # Unset /\ number # Unset /\ unit # Unset

====
